---- MODULE Spec2Model ----
(***************************************************************************)
(* Model of TerminalAI._generate_with_fallback and TerminalAI._start_spinner*)
(* of ai_helper.py: the OpenAI ("Primary") attempts with retry and backoff, *)
(* the Gemini ("Secondary") fallback under a 7 second wait, the status      *)
(* record last_status, and the spinner threads that run beside the calls.   *)
(* Times are in milliseconds.                                               *)
(***************************************************************************)
EXTENDS Integers, Sequences, FiniteSets, TLC

\* ---- bounds of the model ----
\* number of invocations of _generate_with_fallback on one TerminalAI instance
MaxCalls == 2

\* latencies of one OpenAI call, and of the Gemini call (ms)
PrimaryLatencies == {200}
SecondaryLatencies == {3000, 6900, 10000}

\* ---- constants of the program ----
MaxAttempts == 3
InitialDelay == 500
SecondaryTimeout == 7000

VARIABLES
    openai_client,   \* TRUE iff self.openai_client is not None
    client,          \* TRUE iff self.client is not None
    last_status,     \* self.last_status
    pc,              \* position of the calling thread
    attempt,         \* 1-based index of the current iteration of `for _ in range(3)`
    delay,           \* local delay
    last_exc,        \* local last_exc
    start_openai,    \* local start_openai
    start,           \* local start
    spinner_stop,    \* local spinner_stop: index into spinners, 0 when unbound
    fut,             \* the future submitted to the pool
    pending,         \* the return value or exception travelling through the with-exit
    result,          \* what the caller received
    now,             \* time.monotonic(), counted from the entry of the current invocation
    spinners,        \* every spinner thread started so far, with its stop_event
    calls,           \* invocations so far
    hist             \* per-invocation history: provider calls, sleeps, entry time

vars == <<openai_client, client, last_status, pc, attempt, delay, last_exc,
          start_openai, start, spinner_stop, fut, pending, result, now,
          spinners, calls, hist>>

\* ---- values ----
NoStatus == [provider |-> "None", reason |-> "None", error |-> "absent", duration_ms |-> -1]

NoExc == "None"
OpenAIError(k) == IF k = 1 THEN "openai_error_1"
                  ELSE IF k = 2 THEN "openai_error_2" ELSE "openai_error_3"

NoText == [provider |-> "none", attempt |-> 0]
OpenAIText(k) == [provider |-> "openai", attempt |-> k]
GeminiText == [provider |-> "gemini", attempt |-> 0]

NoResult == [kind |-> "none", text |-> NoText, error |-> "none", detail |-> "none"]
Returned(t) == [kind |-> "text", text |-> t, error |-> "none", detail |-> "none"]
Raised(e, d) == [kind |-> "error", text |-> NoText, error |-> e, detail |-> d]
Replied(d) == [kind |-> "reply", text |-> NoText, error |-> "none", detail |-> d]

NoProviderMessage == "No AI client is available (both OpenAI and Gemini failed)."
TimeoutMessage == "Gemini fallback timed out after 7 seconds"
NotInitializedMessage == "Error: No AI client is initialized. Please ensure the client is set."

NoFuture == [state |-> "none", outcome |-> "none", latency |-> 0, hangs |-> FALSE]

NoHist == [primCalls |-> 0, primOk |-> 0, secCalls |-> 0, sleeps |-> <<>>,
           firstSpinner |-> 1, statusAtEntry |-> NoStatus]

Max(a, b) == IF a >= b THEN a ELSE b

\* ---- _start_spinner ----
\* blanks counts the thread's blanking writes; a drawing write is the step from
\* pc "draw" to pc "sleep"
NewSpinner == [pc |-> "check", stop |-> FALSE, sets |-> 0, blanks |-> 0]

StartSpinner(ss) == Append(ss, NewSpinner)

\* stop_event.set()
SetStop(ss, s) == [ss EXCEPT ![s].stop = TRUE, ![s].sets = @ + 1]

\* `while not stop_event.is_set()`
SpinCheck(s) ==
    /\ spinners[s].pc = "check"
    /\ spinners' = [spinners EXCEPT ![s].pc = IF spinners[s].stop THEN "blank" ELSE "draw"]
    /\ UNCHANGED <<openai_client, client, last_status, pc, attempt, delay, last_exc,
                   start_openai, start, spinner_stop, fut, pending, result, now,
                   calls, hist>>

\* sys.stdout.write("\r" + msg + " " * 10)
SpinDraw(s) ==
    /\ spinners[s].pc = "draw"
    /\ spinners' = [spinners EXCEPT ![s].pc = "sleep"]
    /\ UNCHANGED <<openai_client, client, last_status, pc, attempt, delay, last_exc,
                   start_openai, start, spinner_stop, fut, pending, result, now,
                   calls, hist>>

\* time.sleep(interval); i += 1   (i selects the text of the next drawing only;
\* the text is not part of the state)
SpinSleep(s) ==
    /\ spinners[s].pc = "sleep"
    /\ spinners' = [spinners EXCEPT ![s].pc = "check"]
    /\ UNCHANGED <<openai_client, client, last_status, pc, attempt, delay, last_exc,
                   start_openai, start, spinner_stop, fut, pending, result, now,
                   calls, hist>>

SpinBlankThenLoop(s) ==
    /\ spinners[s].pc = "blank"
    /\ spinners' = [spinners EXCEPT ![s].pc = "draw", ![s].blanks = 1]
    /\ UNCHANGED <<openai_client, client, last_status, pc, attempt, delay, last_exc,
                   start_openai, start, spinner_stop, fut, pending, result, now,
                   calls, hist>>

\* sys.stdout.write("\r" + " " * 80 + "\r"), then the thread ends
SpinBlank(s) ==
    /\ spinners[s].pc = "blank"
    /\ spinners' = [spinners EXCEPT ![s].pc = "dead", ![s].blanks = @ + 1]
    /\ UNCHANGED <<openai_client, client, last_status, pc, attempt, delay, last_exc,
                   start_openai, start, spinner_stop, fut, pending, result, now,
                   calls, hist>>

\* ---- _generate_with_fallback ----
config == <<openai_client, client>>
primaryLocals == <<attempt, delay, last_exc, start_openai>>
secondaryLocals == <<start, fut, pending>>

NextDelayAdds(d) == d + 2

\* `delay *= 2`
NextDelay(d) == d * 2

DurationSinceEntry(t0, t) == t

\* int((time.monotonic() - start_openai) * 1000), int((time.monotonic() - start) * 1000)
DurationSince(t0, t) == t - t0

OpenAIStatus(d) ==
    [provider |-> "openai", reason |-> "ok", error |-> "absent", duration_ms |-> d]

FallbackStatusPrimary(exc) ==
    [provider |-> "openai", reason |-> "openai_failed", error |-> exc, duration_ms |-> -1]

\* self.last_status = {"provider": "gemini", "reason": "openai_failed", "error": str(last_exc)}
FallbackStatus(exc) ==
    [provider |-> "gemini", reason |-> "openai_failed", error |-> exc, duration_ms |-> -1]

MergeStatusStale(ls, d) ==
    IF ls = NoStatus
    THEN [provider |-> "gemini", reason |-> "ok", error |-> "absent", duration_ms |-> d]
    ELSE ls

\* `if not self.last_status: ... else: self.last_status["duration_ms"] = duration_ms`
MergeStatus(ls, d) ==
    IF ls = NoStatus
    THEN [provider |-> "gemini", reason |-> "ok", error |-> "absent", duration_ms |-> d]
    ELSE [ls EXCEPT !.duration_ms = d]

CompletesInTimeShort(f) == ~f.hangs /\ f.latency < 5000

\* fut.result(timeout=7.0) returns or re-raises iff the call completes inside the wait
CompletesInTime(f) == ~f.hangs /\ f.latency < SecondaryTimeout

\* entry of _generate_with_fallback up to the first OpenAI call, or up to the
\* Gemini check when self.openai_client is None
Call ==
    /\ pc \in {"idle", "done"}
    /\ calls < MaxCalls
    /\ calls' = calls + 1
    /\ result' = NoResult
    /\ pending' = NoResult
    /\ fut' = NoFuture
    /\ start' = 0
    /\ now' = 0
    /\ hist' = [NoHist EXCEPT !.firstSpinner = Len(spinners) + 1,
                              !.statusAtEntry = last_status]
    /\ IF openai_client
       THEN /\ delay' = InitialDelay
            /\ last_exc' = NoExc
            /\ start_openai' = now'
            /\ spinners' = StartSpinner(spinners)
            /\ spinner_stop' = Len(spinners) + 1
            /\ attempt' = 1
            /\ pc' = "prim_call"
       ELSE /\ delay' = 0
            /\ last_exc' = NoExc
            /\ start_openai' = 0
            /\ attempt' = 0
            /\ spinner_stop' = 0
            /\ pc' = "sec_check"
            /\ UNCHANGED spinners
    /\ UNCHANGED <<config, last_status>>

\* ask_question: `if self.client is None and self.openai_client is None: return "Error: ..."`
AskQuestionNoClient ==
    /\ pc \in {"idle", "done"}
    /\ calls < MaxCalls
    /\ ~client /\ ~openai_client
    /\ calls' = calls + 1
    /\ now' = 0
    /\ hist' = [NoHist EXCEPT !.firstSpinner = Len(spinners) + 1,
                              !.statusAtEntry = last_status]
    /\ result' = Replied(NotInitializedMessage)
    /\ pc' = "idle"
    /\ UNCHANGED <<config, last_status, primaryLocals, secondaryLocals, spinner_stop,
                   spinners>>

\* an OpenAI call that returns: the try body
PrimarySuccess ==
    /\ pc = "prim_call"
    /\ \E lat \in PrimaryLatencies :
        /\ now' = now + lat
        /\ last_status' = OpenAIStatus(DurationSince(start_openai, now + lat))
    /\ spinners' = SetStop(spinners, spinner_stop)
    /\ result' = Returned(OpenAIText(attempt))
    /\ hist' = [hist EXCEPT !.primCalls = @ + 1, !.primOk = attempt]
    /\ pc' = "done"
    /\ UNCHANGED <<config, primaryLocals, secondaryLocals, spinner_stop, calls>>

PrimaryFailureRaisesLast ==
    /\ pc = "prim_call"
    /\ \E lat \in PrimaryLatencies : now' = now + lat
    /\ last_exc' = OpenAIError(attempt)
    /\ hist' = [hist EXCEPT !.primCalls = @ + 1]
    /\ IF attempt = MaxAttempts
       THEN /\ result' = Raised("PrimaryFailed", OpenAIError(attempt))
            /\ spinners' = SetStop(spinners, spinner_stop)
            /\ pc' = "done"
       ELSE /\ pc' = "prim_sleep"
            /\ UNCHANGED <<result, spinners>>
    /\ UNCHANGED <<config, last_status, attempt, delay, start_openai, secondaryLocals,
                   spinner_stop, calls>>

\* an OpenAI call that raises: `except Exception as exc: last_exc = exc`
PrimaryFailure ==
    /\ pc = "prim_call"
    /\ \E lat \in PrimaryLatencies : now' = now + lat
    /\ last_exc' = OpenAIError(attempt)
    /\ hist' = [hist EXCEPT !.primCalls = @ + 1]
    /\ pc' = "prim_sleep"
    /\ UNCHANGED <<config, last_status, attempt, delay, start_openai, secondaryLocals,
                   spinner_stop, result, spinners, calls>>

BackoffSleepEarlyExit ==
    /\ pc = "prim_sleep"
    /\ now' = now + delay
    /\ hist' = [hist EXCEPT !.sleeps = Append(@, delay)]
    /\ delay' = NextDelay(delay)
    /\ IF attempt < MaxAttempts - 1
       THEN attempt' = attempt + 1 /\ pc' = "prim_call"
       ELSE attempt' = attempt /\ pc' = "prim_exhausted"
    /\ UNCHANGED <<config, last_status, last_exc, start_openai, secondaryLocals,
                   spinner_stop, result, spinners, calls>>

\* `time.sleep(delay); delay *= 2`, then the next iteration or the end of the loop
BackoffSleep ==
    /\ pc = "prim_sleep"
    /\ now' = now + delay
    /\ hist' = [hist EXCEPT !.sleeps = Append(@, delay)]
    /\ delay' = NextDelay(delay)
    /\ IF attempt < MaxAttempts
       THEN attempt' = attempt + 1 /\ pc' = "prim_call"
       ELSE attempt' = attempt /\ pc' = "prim_exhausted"
    /\ UNCHANGED <<config, last_status, last_exc, start_openai, secondaryLocals,
                   spinner_stop, result, spinners, calls>>

\* after the loop: `spinner_stop.set(); self.last_status = {...}`
PrimaryExhausted ==
    /\ pc = "prim_exhausted"
    /\ spinners' = SetStop(spinners, spinner_stop)
    /\ last_status' = FallbackStatus(last_exc)
    /\ pc' = "sec_check"
    /\ UNCHANGED <<config, primaryLocals, secondaryLocals, spinner_stop, result, now,
                   calls, hist>>

NoSecondaryAfterSpinner ==
    /\ pc = "sec_check"
    /\ ~client
    /\ spinners' = StartSpinner(spinners)
    /\ result' = Raised("NoProvider", NoProviderMessage)
    /\ pc' = "done"
    /\ UNCHANGED <<config, last_status, primaryLocals, secondaryLocals, spinner_stop,
                   now, calls, hist>>

NoSecondaryEmptyText ==
    /\ pc = "sec_check"
    /\ ~client
    /\ result' = Returned(NoText)
    /\ pc' = "done"
    /\ UNCHANGED <<config, last_status, primaryLocals, secondaryLocals, spinner_stop,
                   now, spinners, calls, hist>>

\* `if self.client is None: raise RuntimeError(...)`
NoSecondary ==
    /\ pc = "sec_check"
    /\ ~client
    /\ result' = Raised("NoProvider", NoProviderMessage)
    /\ pc' = "done"
    /\ UNCHANGED <<config, last_status, primaryLocals, secondaryLocals, spinner_stop,
                   now, spinners, calls, hist>>

\* `start = ...; spinner_stop = self._start_spinner(...); fut = pool.submit(...)`
\* The Gemini call runs in the pool's worker; what it will do is fixed here.
SecondarySubmit ==
    /\ pc = "sec_check"
    /\ client
    /\ start' = now
    /\ spinners' = StartSpinner(spinners)
    /\ spinner_stop' = Len(spinners) + 1
    /\ \/ \E o \in {"ok", "RequestFailed", "Timeout"}, l \in SecondaryLatencies :
            fut' = [state |-> "running", outcome |-> o, latency |-> l, hangs |-> FALSE]
       \/ fut' = [state |-> "running", outcome |-> "never", latency |-> 0, hangs |-> TRUE]
    /\ hist' = [hist EXCEPT !.secCalls = @ + 1]
    /\ pc' = "sec_wait"
    /\ UNCHANGED <<config, last_status, primaryLocals, pending, result, now, calls>>

\* fut.result(timeout=7.0) returns: the try body up to `return`
SecondarySuccess ==
    /\ pc = "sec_wait"
    /\ CompletesInTime(fut) /\ fut.outcome = "ok"
    /\ now' = start + fut.latency
    /\ fut' = [fut EXCEPT !.state = "done"]
    /\ spinners' = SetStop(spinners, spinner_stop)
    /\ last_status' = MergeStatus(last_status, DurationSince(start, start + fut.latency))
    /\ pending' = Returned(GeminiText)
    /\ pc' = "sec_exit"
    /\ UNCHANGED <<config, primaryLocals, start, spinner_stop, result, calls, hist>>

SecondaryTimedOutNoStop ==
    /\ pc = "sec_wait"
    /\ ~CompletesInTime(fut)
    /\ now' = start + SecondaryTimeout
    /\ pending' = Raised("SecondaryTimeout", TimeoutMessage)
    /\ pc' = "sec_exit"
    /\ UNCHANGED <<config, last_status, primaryLocals, start, fut, spinner_stop, result,
                   spinners, calls, hist>>

\* `except concurrent.futures.TimeoutError:` after the 7 second wait
SecondaryTimedOut ==
    /\ pc = "sec_wait"
    /\ ~CompletesInTime(fut)
    /\ now' = start + SecondaryTimeout
    /\ spinners' = SetStop(spinners, spinner_stop)
    /\ pending' = Raised("SecondaryTimeout", TimeoutMessage)
    /\ pc' = "sec_exit"
    /\ UNCHANGED <<config, last_status, primaryLocals, start, fut, spinner_stop, result,
                   calls, hist>>

SecondaryErrorRetries ==
    /\ pc = "sec_wait"
    /\ CompletesInTime(fut) /\ fut.outcome # "ok"
    /\ now' = start + fut.latency
    /\ fut' = [fut EXCEPT !.state = "done"]
    /\ spinners' = SetStop(spinners, spinner_stop)
    /\ pc' = "sec_check"
    /\ UNCHANGED <<config, last_status, primaryLocals, start, pending, spinner_stop,
                   result, calls, hist>>

\* fut.result re-raises the call's exception.  concurrent.futures.TimeoutError is
\* the builtin TimeoutError on Python >= 3.11, so an exception of that class
\* raised by the call is caught by the first except clause there.
SecondaryError ==
    /\ pc = "sec_wait"
    /\ CompletesInTime(fut) /\ fut.outcome # "ok"
    /\ now' = start + fut.latency
    /\ fut' = [fut EXCEPT !.state = "done"]
    /\ spinners' = SetStop(spinners, spinner_stop)
    /\ \E builtinTimeout \in (IF fut.outcome = "Timeout" THEN BOOLEAN ELSE {FALSE}) :
         pending' = IF builtinTimeout
                    THEN Raised("SecondaryTimeout", TimeoutMessage)
                    ELSE Raised("SecondaryFailed", fut.outcome)
    /\ pc' = "sec_exit"
    /\ UNCHANGED <<config, last_status, primaryLocals, start, spinner_stop, result,
                   calls, hist>>

\* leaving `with ThreadPoolExecutor(...) as pool`: __exit__ is shutdown(wait=True),
\* which joins the worker, so it ends when the submitted call has ended
PoolShutdown ==
    /\ pc = "sec_exit"
    /\ ~fut.hangs
    /\ now' = Max(now, start + fut.latency)
    /\ fut' = [fut EXCEPT !.state = "done"]
    /\ result' = pending
    /\ pc' = "done"
    /\ UNCHANGED <<config, last_status, primaryLocals, start, pending, spinner_stop,
                   spinners, calls, hist>>

Init ==
    /\ openai_client \in BOOLEAN
    /\ client \in BOOLEAN
    /\ last_status = NoStatus
    /\ pc = "idle"
    /\ attempt = 0
    /\ delay = 0
    /\ last_exc = NoExc
    /\ start_openai = 0
    /\ start = 0
    /\ spinner_stop = 0
    /\ fut = NoFuture
    /\ pending = NoResult
    /\ result = NoResult
    /\ now = 0
    /\ spinners = <<>>
    /\ calls = 0
    /\ hist = NoHist

Next ==
    \/ Call
    \/ AskQuestionNoClient
    \/ PrimarySuccess
    \/ PrimaryFailure
    \/ BackoffSleep
    \/ PrimaryExhausted
    \/ NoSecondary
    \/ SecondarySubmit
    \/ SecondarySuccess
    \/ SecondaryTimedOut
    \/ SecondaryError
    \/ PoolShutdown
    \/ \E s \in 1..Len(spinners) : SpinCheck(s)
    \/ \E s \in 1..Len(spinners) : SpinDraw(s)
    \/ \E s \in 1..Len(spinners) : SpinSleep(s)
    \/ \E s \in 1..Len(spinners) : SpinBlank(s)

Spec == Init /\ [][Next]_vars

\* the steps of the calling thread inside _generate_with_fallback
MainStep ==
    \/ PrimarySuccess
    \/ PrimaryFailure
    \/ BackoffSleep
    \/ PrimaryExhausted
    \/ NoSecondary
    \/ SecondarySubmit
    \/ SecondarySuccess
    \/ SecondaryTimedOut
    \/ SecondaryError
    \/ PoolShutdown

SpinnerStep(s) == SpinCheck(s) \/ SpinDraw(s) \/ SpinSleep(s) \/ SpinBlank(s)

\* The calling thread and every spinner thread keep being scheduled; an OpenAI
\* call always ends (PrimarySuccess or PrimaryFailure is taken); a Gemini call
\* that hangs never ends, so PoolShutdown stays disabled for it.
FairSpec ==
    /\ Init
    /\ [][Next]_vars
    /\ WF_vars(MainStep)
    /\ WF_vars(\E s \in 1..Len(spinners) : SpinnerStep(s))

\* ---- properties ----
InCall == pc \notin {"idle", "done"}

AllPrimaryFailed == hist.primCalls = MaxAttempts /\ hist.primOk = 0

SecondarySucceeded == fut.state = "done" /\ fut.outcome = "ok" /\ CompletesInTime(fut)

\* C1: when the Gemini call takes longer than the 7 second wait, the call fails
\* with the timeout error and control is back with the caller at the deadline,
\* start + 7000 ms, without waiting for the Gemini call; no text is returned.
C1_TimeoutReturnsAtDeadline ==
    (pc = "done" /\ fut.state # "none" /\ ~CompletesInTime(fut)) =>
        /\ result = Raised("SecondaryTimeout", TimeoutMessage)
        /\ now = start + SecondaryTimeout

\* C2: every invocation of _generate_with_fallback eventually returns or raises,
\* also when the Gemini call never completes.
C2_EveryCallEnds == InCall ~> (pc = "done")

\* C3: no sleep follows the last (third) failed OpenAI attempt: a run whose three
\* attempts all fail has slept exactly twice when it goes on to the Gemini step.
C3_NoSleepAfterLastAttempt ==
    /\ Len(hist.sleeps) <= MaxAttempts - 1
    /\ (AllPrimaryFailed /\ pc = "sec_check") => Len(hist.sleeps) = MaxAttempts - 1

\* the sleeps before attempt k: 0.5s, 1s, ... each double the one before
BackoffBefore(k) == [j \in 1..(k - 1) |-> InitialDelay * 2^(j - 1)]

\* C4: when the first OpenAI success is on attempt k, exactly k-1 sleeps of
\* 500, 1000, ... ms happened, the text of attempt k is returned, last_status
\* is provider openai with reason ok, and Gemini was not called.
C4_PrimarySuccessOnAttemptK ==
    (pc = "done" /\ hist.primOk # 0) =>
        /\ hist.primCalls = hist.primOk
        /\ hist.sleeps = BackoffBefore(hist.primOk)
        /\ result = Returned(OpenAIText(hist.primOk))
        /\ last_status.provider = "openai" /\ last_status.reason = "ok"
        /\ hist.secCalls = 0 /\ fut = NoFuture

C4_Witness ==
    pc = "done" /\ hist.primOk = MaxAttempts /\ hist.sleeps = <<500, 1000>>

\* C5: when all three OpenAI attempts fail and Gemini then succeeds inside its
\* wait, Gemini's text is returned and last_status is provider gemini, reason
\* openai_failed, with the last OpenAI error and a duration counted from the
\* start of the Gemini attempt.
C5_FallbackSuccess ==
    (pc = "done" /\ AllPrimaryFailed /\ SecondarySucceeded) =>
        /\ result = Returned(GeminiText)
        /\ last_status = [provider |-> "gemini", reason |-> "openai_failed",
                          error |-> OpenAIError(MaxAttempts),
                          duration_ms |-> fut.latency]

C5_Witness ==
    /\ pc = "done" /\ AllPrimaryFailed /\ SecondarySucceeded
    /\ fut.latency = 3000 /\ now - start_openai # 3000

\* C6: with OpenAI unconfigured and Gemini succeeding inside its wait, no OpenAI
\* call and no sleep happen and last_status is provider gemini, reason ok, with
\* the duration of this Gemini attempt, in every invocation on the instance.
C6_SecondaryOnly ==
    (pc = "done" /\ ~openai_client /\ SecondarySucceeded) =>
        /\ hist.primCalls = 0 /\ hist.sleeps = <<>>
        /\ result = Returned(GeminiText)
        /\ last_status = [provider |-> "gemini", reason |-> "ok", error |-> "absent",
                          duration_ms |-> fut.latency]

C6_Witness ==
    /\ pc = "done" /\ ~openai_client /\ SecondarySucceeded
    /\ calls = 2
    /\ hist.statusAtEntry.provider = "gemini"
    /\ hist.statusAtEntry.duration_ms # fut.latency

\* C7: with neither provider configured the request fails at once with the
\* no-provider error: no provider call, no spinner, no sleep, no time spent,
\* and last_status is what it was on entry.
C7_NeitherConfigured ==
    (~openai_client /\ ~client /\ calls > 0) =>
        /\ pc \in {"idle", "sec_check", "done"}
        /\ pc = "done" => result = Raised("NoProvider", NoProviderMessage)
        /\ pc = "idle" => result = Replied(NotInitializedMessage)
        /\ hist.primCalls = 0 /\ hist.secCalls = 0 /\ fut = NoFuture
        /\ hist.sleeps = <<>> /\ now = 0
        /\ spinners = <<>>
        /\ last_status = hist.statusAtEntry

C7_Witness ==
    /\ ~openai_client /\ ~client /\ pc = "done"
    /\ result = Raised("NoProvider", NoProviderMessage)

\* C8: with OpenAI configured, Gemini absent and every OpenAI attempt failed, the
\* call fails with the no-provider error, returns no text, and never calls Gemini.
C8_PrimaryOnlyExhausted ==
    /\ ~client => (hist.secCalls = 0 /\ fut = NoFuture)
    /\ (openai_client /\ ~client /\ pc = "done" /\ hist.primOk = 0) =>
        /\ AllPrimaryFailed
        /\ result = Raised("NoProvider", NoProviderMessage)

C8_Witness ==
    openai_client /\ ~client /\ pc = "done" /\ AllPrimaryFailed

\* C9: every spinner started by _generate_with_fallback gets its stop signal
\* exactly once, and has it when the call returns or raises, on every exit path.
C9_StoppedExactlyOnce ==
    /\ \A s \in 1..Len(spinners) : spinners[s].sets <= 1
    /\ pc = "done" => \A s \in 1..Len(spinners) : spinners[s].sets = 1

C9_Witness ==
    /\ pc = "done" /\ AllPrimaryFailed
    /\ result.error = "SecondaryTimeout"
    /\ Len(spinners) = 2

\* C10: when _generate_with_fallback returns or raises, every spinner thread it
\* started has made its blanking write and ended.
C10_NoSpinnerOutlivesCall ==
    pc = "done" => \A s \in 1..Len(spinners) : spinners[s].pc = "dead"

\* C11: in every interleaving of start, stop and the spinner thread's steps a
\* spinner thread's last write is the blanking write: it makes at most one
\* blanking write, only after its stop_event was set, it has ended exactly when
\* that write is made, and after it the thread takes no step (draws nothing).
C11_BlankingWriteIsLast ==
    /\ [](\A s \in 1..Len(spinners) :
            /\ spinners[s].blanks <= 1
            /\ spinners[s].blanks = 1 <=> spinners[s].pc = "dead"
            /\ spinners[s].pc \in {"blank", "dead"} => spinners[s].stop)
    /\ [][\A s \in 1..Len(spinners) :
            spinners[s].blanks >= 1 => spinners'[s] = spinners[s]]_vars

\* one thread has been stopped between its stop check and its drawing write,
\* another has made its blanking write and ended
C11_Witness ==
    \E s, t \in 1..Len(spinners) :
        /\ spinners[s].pc = "draw" /\ spinners[s].stop
        /\ spinners[t].pc = "dead" /\ spinners[t].blanks = 1

\* C12: when a call has returned or raised, the provider named by last_status is
\* the one whose successful call produced the text handed to the caller; it is
\* not gemini when Gemini was absent, timed out or failed.
C12_StatusNamesProducer ==
    pc = "done" =>
        /\ last_status.provider = "gemini" => result = Returned(GeminiText)
        /\ last_status.provider = "openai" =>
               (result.kind = "text" /\ result.text.provider = "openai")

TerminalErrors == {"SecondaryTimeout", "SecondaryFailed", "NoProvider"}

PrimaryErrors == {OpenAIError(k) : k \in 1..MaxAttempts}

\* C13: an OpenAI failure never reaches the caller: every error raised is one of
\* the three terminal ones and does not carry an OpenAI error; the OpenAI
\* failure is kept in last_status only.
C13_PrimaryFailuresAbsorbed ==
    /\ result.kind = "error" =>
           (result.error \in TerminalErrors /\ result.detail \notin PrimaryErrors)
    /\ pending.kind = "error" =>
           (pending.error \in TerminalErrors /\ pending.detail \notin PrimaryErrors)
    /\ (pc = "done" /\ hist.primCalls > 0 /\ hist.primOk = 0) =>
           (AllPrimaryFailed /\ last_status.error = OpenAIError(MaxAttempts))
    /\ (pc = "done" /\ hist.primOk # 0) => last_status.error = "absent"

C13_Witness ==
    /\ pc = "done" /\ AllPrimaryFailed
    /\ result = Raised("SecondaryFailed", "RequestFailed")
    /\ last_status.error = OpenAIError(MaxAttempts)

\* C14: the timeout error is raised only when the 7 second wait elapsed without
\* the Gemini call completing; a Gemini call that fails before the deadline,
\* whatever the kind of its failure, gives the Secondary-failed error with that
\* failure's detail.
C14_TimeoutOnlyAfterDeadline ==
    (pc = "done" /\ fut.state # "none") =>
        /\ result.error = "SecondaryTimeout" =>
               (fut.hangs \/ fut.latency >= SecondaryTimeout)
        /\ (~fut.hangs /\ fut.latency < SecondaryTimeout /\ fut.outcome # "ok") =>
               result = Raised("SecondaryFailed", fut.outcome)

\* C15: in every state, last_status with reason openai_failed has provider
\* gemini, and last_status with provider openai has reason ok.
C15_ReasonProviderInvariant ==
    /\ last_status.reason = "openai_failed" => last_status.provider = "gemini"
    /\ last_status.provider = "openai" => last_status.reason = "ok"

C15_Witness ==
    /\ last_status.reason = "openai_failed" /\ last_status.duration_ms >= 0
    /\ hist.statusAtEntry.provider = "openai"

\* C16: OpenAI attempts are one after another, attempt n+1 only after attempt n
\* failed and its sleep ended, at most 3 in an invocation; the Gemini call is
\* started only after three failed OpenAI attempts or with OpenAI unconfigured,
\* never while an OpenAI attempt is under way and never after an OpenAI success.
C16_SequentialAttempts ==
    /\ hist.primCalls <= MaxAttempts
    /\ pc = "prim_call" =>
           /\ hist.primCalls = attempt - 1 /\ hist.primOk = 0
           /\ Len(hist.sleeps) = attempt - 1
    /\ hist.secCalls > 0 =>
           IF openai_client THEN AllPrimaryFailed ELSE hist.primCalls = 0
    /\ fut.state = "running" => pc \in {"sec_wait", "sec_exit"}
    /\ hist.primOk # 0 => (hist.secCalls = 0 /\ fut = NoFuture /\ pc = "done")

C16_Witness ==
    openai_client /\ fut.state = "running" /\ AllPrimaryFailed /\ pc = "sec_wait"

\* C17: in one invocation the Gemini call is made at most once: once it is made,
\* neither a second Gemini call nor a sleep follows in that invocation.
C17_SecondaryAtMostOnce ==
    /\ [](hist.secCalls <= 1)
    /\ [][(hist.secCalls >= 1 /\ calls' = calls) =>
              (hist'.secCalls = 1 /\ hist'.sleeps = hist.sleeps)]_vars

C17_Witness ==
    /\ pc = "done" /\ hist.secCalls = 1
    /\ result = Raised("SecondaryFailed", "RequestFailed")

\* C18: a Gemini call that completes successfully strictly before the 7 second
\* deadline makes the call succeed with Gemini's text, at the time the call
\* completed; the timeout error is not raised for it.
C18_SuccessBeforeDeadline ==
    (fut.state # "none" /\ ~fut.hangs /\ fut.outcome = "ok"
        /\ fut.latency < SecondaryTimeout) =>
        /\ pending.error # "SecondaryTimeout" /\ result.error # "SecondaryTimeout"
        /\ pc = "sec_exit" => pending = Returned(GeminiText)
        /\ pc = "done" => (result = Returned(GeminiText) /\ now = start + fut.latency)

C18_Witness ==
    pc = "done" /\ fut.latency = 6900 /\ fut.outcome = "ok" /\ result = Returned(GeminiText)

PlainNoProviderMessage == "No AI client is available."

\* C19: the no-provider error carries the "both providers failed" message only
\* when OpenAI was configured and exhausted, and the plain message when OpenAI
\* was never configured.
C19_NoProviderMessage ==
    (pc = "done" /\ result.error = "NoProvider") =>
        result.detail = IF openai_client THEN NoProviderMessage
                        ELSE PlainNoProviderMessage

\* the spinner threads started by the current invocation that have not ended
AliveSpinners ==
    {s \in hist.firstSpinner..Len(spinners) : spinners[s].pc # "dead"}

\* C20: at most one spinner thread is alive at any moment: when the Gemini
\* spinner is started after the OpenAI attempts are exhausted, the OpenAI
\* spinner has made its blanking write and ended.
C20_AtMostOneSpinnerAlive == Cardinality(AliveSpinners) <= 1
====
